---- MODULE Spec2Model ----
(***************************************************************************)
(* A model of LSPClient (src/src/lspClient.ts): the frame decoder, the     *)
(* message queue and its drain loop, the request/response correlator with  *)
(* its timeout timers, the diagnostics store and its subscribers, the      *)
(* document sessions and the initialize/shutdown/restart lifecycle.        *)
(*                                                                         *)
(* JavaScript runs one task at a time.  A step of the model is one         *)
(* synchronous run of code: a host call up to its first await, an I/O or   *)
(* timer callback, or one microtask (the continuation of an await).        *)
(* I/O and timer callbacks start only when the microtask queue is empty.   *)
(***************************************************************************)
EXTENDS Integers, Sequences, FiniteSets, TLC

VARIABLES
  process,              \* this.process: 0 = undefined, n = the n-th spawned instance
  buffer,               \* this.buffer, a sequence of UTF-16 code units
  messageQueue,         \* this.messageQueue
  nextId,               \* this.nextId
  responsePromises,     \* this.responsePromises: id -> the call it settles
  initialized,          \* this.initialized
  serverCapabilities,   \* this.serverCapabilities
  openedDocuments,      \* this.openedDocuments
  documentVersions,     \* this.documentVersions
  processingQueue,      \* this.processingQueue
  documentDiagnostics,  \* this.documentDiagnostics, in insertion order
  diagnosticSubscribers,\* this.diagnosticSubscribers, in insertion order
  calls,                \* the promises made by sendRequest that something still refers to
  microtasks,           \* the runtime's microtask queue
  stream,               \* the bytes the server process writes to its stdout
  pos,                  \* how many of them have been delivered in data events
  decoded,              \* history: every message pushed on the queue by handleData
  sentVersion,          \* history: uri -> version of the last didOpen/didChange written
  answered,             \* history: the ids of this instance's requests a response settled
  writtenIds,           \* history: the ids of the requests written to this instance, in order
  written,              \* history: a summary of the messages written to this instance
  ev                    \* history: what the last step was and what it did

vars == <<process, buffer, messageQueue, nextId, responsePromises, initialized,
          serverCapabilities, openedDocuments, documentVersions, processingQueue,
          documentDiagnostics, diagnosticSubscribers, calls, microtasks,
          stream, pos, decoded, sentVersion, answered, writtenIds, written, ev>>

clientVars == <<process, nextId, responsePromises, initialized, serverCapabilities,
                openedDocuments, documentVersions, documentDiagnostics,
                diagnosticSubscribers, calls, sentVersion>>

\* ------------------------------------------------------------------ bounds
MaxFrames == 2      \* frames in the server's byte stream (decoder specification)
MaxId == 3          \* requests written to one process instance
MaxInst == 2        \* process instances spawned
MaxVersion == 3     \* document versions
MaxChunk == 2       \* complete frames in one data event (client specifications)

\* ------------------------------------------------------- sequences helpers
\* s.substring(n): the code units after the first n (empty when n >= length)
Substring(s, n) == IF n >= Len(s) THEN << >> ELSE SubSeq(s, n + 1, Len(s))

\* s.substring(a, b)
Substring2(s, a, b) ==
  LET e == IF b > Len(s) THEN Len(s) ELSE b
  IN IF a >= e THEN << >> ELSE SubSeq(s, a + 1, e)

RECURSIVE Concat(_)
Concat(ss) == IF ss = << >> THEN << >> ELSE Head(ss) \o Concat(Tail(ss))

\* s.lastIndexOf(c), 0-based, -1 when absent
RECURSIVE LastIndexFrom(_, _, _)
LastIndexFrom(s, c, i) ==
  IF i = 0 THEN -1
  ELSE IF s[i] = c THEN i - 1 ELSE LastIndexFrom(s, c, i - 1)

LastIndexOf(s, c) == LastIndexFrom(s, c, Len(s))

\* ------------------------------------------------------------ bytes, text
\* The bytes of a two-byte UTF-8 character (U+00E9 is C3 A9) and the code
\* units Buffer.toString() produces.
LeadByte == "C3"
ContByte == "A9"
CharE9 == "U+00E9"
CharFFFD == "U+FFFD"

\* data.toString(): UTF-8 decoding of ONE chunk.  A complete sequence gives
\* its character; a lead byte without its continuation, or a continuation
\* byte without its lead, gives U+FFFD.  ASCII bytes are themselves.
\* Decoded(bytes)[i] is what the byte at i contributes: its character, or
\* nothing for a continuation byte that completes the lead byte before it.
Consumed == "consumed"

Decoded(bytes) ==
  [i \in 1..Len(bytes) |->
     IF bytes[i] = LeadByte
       THEN IF i < Len(bytes) /\ bytes[i + 1] = ContByte THEN CharE9 ELSE CharFFFD
     ELSE IF bytes[i] = ContByte
       THEN IF i > 1 /\ bytes[i - 1] = LeadByte THEN Consumed ELSE CharFFFD
     ELSE bytes[i]]

BufferToString(bytes) == SelectSeq(Decoded(bytes), LAMBDA c : c # Consumed)

\* Buffer.byteLength(text): two bytes for U+00E9, one for ASCII
RECURSIVE ByteLength(_)
ByteLength(text) ==
  IF text = << >> THEN 0
  ELSE (IF Head(text) = CharE9 THEN 2 ELSE 1) + ByteLength(Tail(text))

\* the UTF-8 bytes of a text
RECURSIVE Utf8(_)
Utf8(text) ==
  IF text = << >> THEN << >>
  ELSE (IF Head(text) = CharE9 THEN <<LeadByte, ContByte>> ELSE <<Head(text)>>)
       \o Utf8(Tail(text))

Digits == <<"0", "1", "2", "3", "4", "5", "6", "7", "8", "9">>

IsDigit(c) == \E i \in 1..10 : Digits[i] = c

DigitValue(c) == (CHOOSE i \in 1..10 : Digits[i] = c) - 1

\* parseInt(digits, 10)
RECURSIVE ParseIntFrom(_, _)
ParseIntFrom(ds, acc) ==
  IF ds = << >> THEN acc ELSE ParseIntFrom(Tail(ds), acc * 10 + DigitValue(Head(ds)))

ParseInt(ds) == ParseIntFrom(ds, 0)

\* `${n}`: the decimal digits of n
RECURSIVE Decimal(_)
Decimal(n) == IF n < 10 THEN <<Digits[n + 1]>> ELSE Decimal(n \div 10) \o <<Digits[(n % 10) + 1]>>

HeaderName == <<"C", "o", "n", "t", "e", "n", "t", "-", "L", "e", "n", "g", "t", "h", ":", " ">>
HeaderEnd == <<"\r", "\n", "\r", "\n">>

\* A frame as the protocol defines it and as sendRequest writes it: the
\* header carries the BYTE length of the payload.
Frame(text) == HeaderName \o Decimal(ByteLength(text)) \o HeaderEnd \o Utf8(text)

\* ------------------------------------------------------------------ JSON
\* JSON texts over the characters that matter to the decoder: braces, the
\* string quote, white space, and the colon and comma between the members
\* of an object (their places are not checked: the texts that are scanned
\* are valid texts and their truncations).
Quote == "\""
ParseError == "SyntaxError"

\* The scan of JSON.parse: depth of open braces, inside a string or not,
\* and whether the top-level value has been closed.
RECURSIVE JsonScan(_, _, _, _)
JsonScan(s, depth, inStr, closed) ==
  IF s = << >> THEN closed /\ ~inStr
  ELSE LET c == Head(s) r == Tail(s) IN
    IF inStr THEN JsonScan(r, depth, c # Quote, closed)
    ELSE IF c = " " THEN JsonScan(r, depth, FALSE, closed)
    ELSE IF closed THEN FALSE
    ELSE IF c = "{" THEN JsonScan(r, depth + 1, FALSE, FALSE)
    ELSE IF depth = 0 THEN FALSE
    ELSE IF c = "}" THEN JsonScan(r, depth - 1, FALSE, depth = 1)
    ELSE IF c = Quote THEN JsonScan(r, depth, TRUE, FALSE)
    ELSE IF c = ":" \/ c = "," THEN JsonScan(r, depth, FALSE, FALSE)
    ELSE FALSE

\* the value: the text without the white space outside strings
RECURSIVE JsonValue(_, _)
JsonValue(s, inStr) ==
  IF s = << >> THEN << >>
  ELSE LET c == Head(s) r == Tail(s) IN
    IF inStr THEN <<c>> \o JsonValue(r, c # Quote)
    ELSE IF c = " " THEN JsonValue(r, FALSE)
    ELSE <<c>> \o JsonValue(r, c = Quote)

JSONParse(content) ==
  IF JsonScan(content, 0, FALSE, FALSE) THEN JsonValue(content, FALSE) ELSE ParseError
\* ---------------------------------------------------------- frame decoder
MAX_BUFFER_SIZE == 10485760

NoMatch == [matched |-> FALSE, contentLength |-> 0, headerEnd |-> 0]

\* the number of leading digits of s
RECURSIVE DigitRun(_)
DigitRun(s) == IF s # << >> /\ IsDigit(Head(s)) THEN 1 + DigitRun(Tail(s)) ELSE 0

\* this.buffer.match(/^Content-Length: (\d+)\r\n\r\n/)
HeaderMatch(buf) ==
  IF Substring2(buf, 0, Len(HeaderName)) # HeaderName THEN NoMatch
  ELSE LET n == DigitRun(Substring(buf, Len(HeaderName)))
           e == Len(HeaderName) + n
       IN IF n >= 1 /\ Substring2(buf, e, e + Len(HeaderEnd)) = HeaderEnd
            THEN [matched |-> TRUE,
                  contentLength |-> ParseInt(Substring2(buf, Len(HeaderName), e)),
                  headerEnd |-> e + Len(HeaderEnd)]
            ELSE NoMatch

\* the try block of handleData: the parsed message is pushed, a parse
\* failure is logged and pushes nothing
PushParsed(out, content) ==
  IF JSONParse(content) = ParseError THEN out ELSE Append(out, JSONParse(content))

\* the while (true) loop of handleData over the buffer; out collects the
\* messages pushed on the queue, in order
RECURSIVE DecodeLoop(_, _)
DecodeLoop(buf, out) ==
  LET h == HeaderMatch(buf) IN
  IF ~h.matched THEN [buffer |-> buf, pushed |-> out]
  ELSE IF h.contentLength > MAX_BUFFER_SIZE
    THEN DecodeLoop(Substring(buf, h.headerEnd + h.contentLength), out)
  ELSE IF Len(buf) < h.headerEnd + h.contentLength
    THEN [buffer |-> buf, pushed |-> out]
  ELSE LET content == Substring2(buf, h.headerEnd, h.headerEnd + h.contentLength)
           lastBraceIndex == LastIndexOf(content, "}")
       IN IF content = << >> \/ content[Len(content)] # "}"
            THEN IF lastBraceIndex # -1
                   THEN DecodeLoop(Substring(buf, h.headerEnd + lastBraceIndex + 1),
                                   PushParsed(out, Substring2(content, 0, lastBraceIndex + 1)))
                   ELSE DecodeLoop(Substring(buf, h.headerEnd + h.contentLength),
                                   PushParsed(out, content))
            ELSE DecodeLoop(Substring(buf, h.headerEnd + h.contentLength),
                            PushParsed(out, content))

\* the buffer after the append and the size cap of handleData
Appended(buf, data) ==
  LET b == buf \o BufferToString(data) IN
  IF Len(b) > MAX_BUFFER_SIZE THEN Substring(b, Len(b) - MAX_BUFFER_SIZE) ELSE b

\* handleData(data) on buffer buf: the buffer left and the messages pushed
HandleData(buf, data) == DecodeLoop(Appended(buf, data), << >>)
\* ------------------------------------------------------------------ maps
EmptyMap == [k \in {} |-> k]

MapSet(f, k, v) == [x \in (DOMAIN f) \cup {k} |-> IF x = k THEN v ELSE f[x]]

MapDelete(f, k) == [x \in (DOMAIN f) \ {k} |-> f[x]]

Range(f) == {f[x] : x \in DOMAIN f}

Has(seq, x) == \E i \in 1..Len(seq) : seq[i] = x

\* Set.add on a set kept in insertion order
SetAdd(seq, x) == IF Has(seq, x) THEN seq ELSE Append(seq, x)

\* Set.delete
SetDelete(seq, x) == SelectSeq(seq, LAMBDA y : y # x)

\* -------------------------------------------------------------- messages
Undefined == "undefined"

URIs == {"file:///a", "file:///b"}

\* the diagnostics arrays a publish carries (items stand for severities)
DiagSets == {<< >>, <<1>>}

\* the host's callbacks: Throwing ones raise an error whenever invoked
Subscribers == {"cb1", "cbThrows"}
Throwing == {"cbThrows"}

\* a message without an id (the client's own ids start at 1)
NoId == 0

\* message.params: absent, or an object with a uri and diagnostics that
\* are an array or not
NoParams == [present |-> FALSE, uri |-> "", isArray |-> FALSE, diagnostics |-> << >>]

Response(id, result, error) ==
  [id |-> id, result |-> result, error |-> error, method |-> Undefined, params |-> NoParams]

Notification(method, params) ==
  [id |-> NoId, result |-> Undefined, error |-> Undefined, method |-> method, params |-> params]

PublishDiagnostics(uri, diagnostics) ==
  Notification("textDocument/publishDiagnostics",
               [present |-> TRUE, uri |-> uri, isArray |-> TRUE, diagnostics |-> diagnostics])

\* a parsed JSON text of the decoder specification: an object with none of
\* the protocol's fields
RawMessage(text) ==
  [id |-> NoId, result |-> Undefined, error |-> Undefined, method |-> Undefined,
   params |-> NoParams, text |-> text]

\* results: one with a capabilities member (an initialize result), one without
ResultCaps == "result with capabilities"
ResultPlain == "result"
ServerError == "server error"
TimeoutError == "Timeout waiting for response"

\* a message written to the process's stdin
Written(method, id, uri, version) ==
  [method |-> method, id |-> id, uri |-> uri, version |-> version]

\* ---------------------------------------------------- diagnostics store
\* documentDiagnostics.get(uri) || []
DiagGet(store, uri) ==
  IF \E i \in 1..Len(store) : store[i].uri = uri
    THEN store[CHOOSE i \in 1..Len(store) : store[i].uri = uri].diagnostics
    ELSE << >>

DiagHas(store, uri) == \E i \in 1..Len(store) : store[i].uri = uri

\* documentDiagnostics.set(uri, diagnostics): replaces in place, else appends
DiagSet(store, uri, diagnostics) ==
  IF DiagHas(store, uri)
    THEN [i \in 1..Len(store) |->
            IF store[i].uri = uri THEN [uri |-> uri, diagnostics |-> diagnostics] ELSE store[i]]
    ELSE Append(store, [uri |-> uri, diagnostics |-> diagnostics])

getDiagnostics(uri) == DiagGet(documentDiagnostics, uri)

getAllDiagnostics == documentDiagnostics

\* a faulty variant: an error thrown by a subscriber ends the forEach
NotifyUncaught(subs, uri, diagnostics) ==
  LET last == IF \E i \in 1..Len(subs) : subs[i] \in Throwing
                THEN CHOOSE i \in 1..Len(subs) :
                       subs[i] \in Throwing /\ \A j \in 1..(i - 1) : subs[j] \notin Throwing
                ELSE Len(subs)
  IN [i \in 1..last |-> <<subs[i], uri, diagnostics>>]

\* notifyDiagnosticUpdate: every subscriber is invoked, in order; an error
\* thrown by one is caught and logged
NotifyDiagnosticUpdate(subs, uri, diagnostics) ==
  [i \in 1..Len(subs) |-> <<subs[i], uri, diagnostics>>]

\* the forEach of subscribeToDiagnostics: the callback is invoked for the
\* stored entries in order; an error it throws ends the loop
InitialDeliveries(store, cb) ==
  IF store = << >> THEN << >>
  ELSE IF cb \in Throwing THEN <<<<cb, store[1].uri, store[1].diagnostics>>>>
  ELSE [i \in 1..Len(store) |-> <<cb, store[i].uri, store[i].diagnostics>>]

\* ------------------------------------------------------- calls, promises
\* A call is the promise sendRequest returns with its timer.  Its key is
\* <<instance, id>>.  st/val: the promise's state; settles: how many times
\* its resolve or reject function has been invoked; awaited: the caller's
\* continuation has not run yet.
NewCall(method, via, root) ==
  [method |-> method, via |-> via, root |-> root, st |-> "pending", val |-> Undefined,
   timer |-> "armed", settles |-> 0, awaited |-> TRUE]

\* resolve(v) or reject(v) of the promise of call c
Settle(cs, c, how, v) ==
  [cs EXCEPT ![c] = [@ EXCEPT !.st = IF @ = "pending" THEN how ELSE @,
                              !.val = IF cs[c].st = "pending" THEN v ELSE @,
                              !.settles = @ + 1]]

\* the microtasks that settling c queues: its awaiter's continuation
Reactions(cs, c) == IF cs[c].st = "pending" /\ cs[c].awaited THEN <<<<"cont", c>>>> ELSE << >>

\* The calls something can still settle or resume: an awaiter whose promise
\* is settled and whose continuation has yet to run, an armed timer, an
\* entry of responsePromises.  A pending call that none of these refers to
\* stays pending for ever and is dropped from the state.
Reachable(cs, rp) ==
  [c \in {x \in DOMAIN cs : \/ cs[x].awaited /\ cs[x].st # "pending"
                            \/ cs[x].timer = "armed"
                            \/ x \in Range(rp)} |-> cs[c]]

\* ------------------------------------------------------------- the event
\* What one step did: the operation or callback, its argument, what its
\* caller got (Suspended: it is awaiting), the messages it wrote to the
\* stdin of instance inst, the subscriber callbacks it invoked, the
\* messages handleMessage was called with, the messages handleData pushed
\* on the queue and how the request a continuation awaited was settled.
Suspended == "suspended"

\* phase: "call" (a host call, up to its first await or its return),
\* "resume" (the continuation of an awaiting host call), "event" (an I/O or
\* timer callback, the drain loop).
Event(op, phase, arg, res, inst, out, delivered) ==
  [op |-> op, phase |-> phase, arg |-> arg, res |-> res, inst |-> inst, out |-> out,
   delivered |-> delivered, handled |-> << >>, pushed |-> << >>, settled |-> << >>]

Handling(op, m, delivered) ==
  [Event(op, "event", "", "ok", process, << >>, delivered) EXCEPT !.handled = <<m>>]

Quiet(op, phase, arg, res) == Event(op, phase, arg, res, process, << >>, << >>)

\* ------------------------------------------------- what the server was told
\* Nothing has been written to the stdin of a process that was just spawned.
\* The summary counts the initialize requests and the initialized
\* notifications, says whether the shutdown request and the exit
\* notification were written, and holds the uris whose most recent
\* didOpen/didClose was a didOpen.
NothingWritten ==
  [initialize |-> 0, initialized |-> 0, shutdown |-> FALSE, exit |-> FALSE, open |-> {}]

\* the summary w after process.stdin.write of each message of out, in order
Log(w, out) ==
  LET count(method) == Cardinality({i \in 1..Len(out) : out[i].method = method})
      about(uri) == {i \in 1..Len(out) :
                       /\ out[i].uri = uri
                       /\ out[i].method \in {"textDocument/didOpen", "textDocument/didClose"}}
      last(uri) == CHOOSE i \in about(uri) : \A j \in about(uri) : j <= i
  IN [initialize |-> w.initialize + count("initialize"),
      initialized |-> w.initialized + count("initialized"),
      shutdown |-> w.shutdown \/ count("shutdown") > 0,
      exit |-> w.exit \/ count("exit") > 0,
      open |-> {u \in w.open \cup {out[i].uri : i \in 1..Len(out)} :
                  IF about(u) = {} THEN u \in w.open
                  ELSE out[last(u)].method = "textDocument/didOpen"}]

\* the step's writes are recorded; a process that was just spawned starts anew
Logged == written' = Log(IF process' = process THEN written ELSE NothingWritten, ev'.out)

\* ------------------------------------------------------------ microtasks
HostTask == <<"host">>
DrainTask == <<"drain">>

\* Host code runs in a task of its own (the microtask queue is empty) or in
\* a reaction of its own that has reached the head of the queue.
HostRuns == IF microtasks = << >> THEN TRUE ELSE Head(microtasks) = HostTask

\* the host's reaction to something it awaits or was called back with
WithHost(q) == IF Has(q, HostTask) THEN q ELSE Append(q, HostTask)

\* -------------------------------------------------------- handleMessage
\* responsePromises.delete(message.id)
DeleteEntry(rp, id) == MapDelete(rp, id)

\* the wrappers stored by sendRequest: clearTimeout, then resolve or reject
SettleEntry(cs, c, how, v) ==
  Settle([cs EXCEPT ![c].timer = IF @ = "armed" THEN "cleared" ELSE @], c, how, v)

\* a faulty variant: a publish is merged with the stored diagnostics
StoreMerged(store, uri, diagnostics) ==
  DiagSet(store, uri, DiagGet(store, uri) \o diagnostics)

\* documentDiagnostics.set(uri, diagnostics) of the publishDiagnostics branch
StoreDiagnostics(store, uri, diagnostics) == DiagSet(store, uri, diagnostics)

IsResponse(m) == m.id # NoId /\ (m.result # Undefined \/ m.error # Undefined)

\* uri && Array.isArray(diagnostics)
IsValidPublish(m) ==
  /\ m.method # Undefined /\ m.id = NoId
  /\ m.method = "textDocument/publishDiagnostics"
  /\ m.params.present
  /\ m.params.uri # "" /\ m.params.isArray

\* the state handleMessage works on, before anything is handled
NothingHandled ==
  [rp |-> responsePromises, calls |-> calls, caps |-> serverCapabilities,
   diags |-> documentDiagnostics, micro |-> << >>, delivered |-> << >>,
   answered |-> answered]

\* handleMessage(m) on the state s: the new values of what it assigns, the
\* microtasks it queues, the callbacks it invokes and the settlements it makes
HandleMessageIn(s, m) ==
  LET matched == IsResponse(m) /\ m.id \in DOMAIN s.rp
      c == s.rp[m.id]
      how == IF m.error # Undefined THEN "rejected" ELSE "resolved"
      v == IF m.error # Undefined THEN m.error ELSE m.result
      publish == IsValidPublish(m)
      delivered == IF publish
                     THEN NotifyDiagnosticUpdate(diagnosticSubscribers, m.params.uri,
                                                 m.params.diagnostics)
                     ELSE << >>
      reactions == IF matched THEN Reactions(s.calls, c) ELSE << >>
  IN [rp |-> IF matched THEN DeleteEntry(s.rp, m.id) ELSE s.rp,
      calls |-> IF matched THEN SettleEntry(s.calls, c, how, v) ELSE s.calls,
      caps |-> IF m.id # NoId /\ m.result = ResultCaps THEN "capabilities" ELSE s.caps,
      diags |-> IF publish
                  THEN StoreDiagnostics(s.diags, m.params.uri, m.params.diagnostics)
                  ELSE s.diags,
      micro |-> s.micro \o (IF delivered # << >> THEN WithHost(reactions) ELSE reactions),
      delivered |-> s.delivered \o delivered,
      answered |-> IF matched THEN s.answered \cup {m.id} ELSE s.answered]

HandleMessage(m) == HandleMessageIn(NothingHandled, m)

\* a faulty variant: the guard of processMessageQueue never holds
NeverProcessing(flag) == FALSE

\* if (this.processingQueue) return
AlreadyProcessing(flag) == flag

\* a faulty variant: the message taken stays in the queue
ShiftKeeps(queue) == [message |-> Head(queue), rest |-> queue]

\* this.messageQueue.shift()
Shift(queue) == [message |-> Head(queue), rest |-> Tail(queue)]

\* messageQueue.push(message); processMessageQueue() for each message of
\* msgs in turn, from the state p.  A call that passes the guard sets the
\* flag, shifts and handles the head synchronously and suspends at its
\* await; a call made while the flag is set returns at once and leaves its
\* message in the queue.
RECURSIVE PushEach(_, _)
PushEach(msgs, p) ==
  IF msgs = << >> THEN p
  ELSE LET q == Append(p.queue, Head(msgs)) IN
       IF AlreadyProcessing(p.processing)
         THEN PushEach(Tail(msgs), [p EXCEPT !.queue = q])
         ELSE LET sh == Shift(q)
                  h == HandleMessageIn(p.h, sh.message)
              IN PushEach(Tail(msgs),
                          [queue |-> sh.rest, processing |-> TRUE,
                           h |-> [h EXCEPT !.micro = Append(@, DrainTask)],
                           handled |-> Append(p.handled, sh.message)])

Pushed(msgs) ==
  PushEach(msgs, [queue |-> messageQueue, processing |-> processingQueue,
                  h |-> NothingHandled, handled |-> << >>])

\* the assignments of a data event of the stdout of instance inst that
\* pushes msgs
Enqueue(inst, msgs) ==
  LET p == Pushed(msgs) IN
  /\ messageQueue' = p.queue
  /\ processingQueue' = p.processing
  /\ responsePromises' = p.h.rp
  /\ calls' = Reachable(p.h.calls, p.h.rp)
  /\ serverCapabilities' = p.h.caps
  /\ documentDiagnostics' = p.h.diags
  /\ answered' = p.h.answered
  /\ microtasks' = microtasks \o p.h.micro
  /\ ev' = [Event("data", "event", "", "ok", inst, << >>, p.h.delivered)
               EXCEPT !.handled = p.handled, !.pushed = msgs]

\* stdout "data" event whose chunk holds exactly the frames of msgs
Data(msgs) ==
  /\ microtasks = << >>
  /\ process # 0
  /\ Enqueue(process, msgs)
  /\ UNCHANGED <<process, buffer, nextId, writtenIds, written, initialized, openedDocuments, documentVersions,
                 diagnosticSubscribers, stream, pos, decoded, sentVersion>>

\* stdout "data" event of an earlier instance inst: restart kills the
\* process and spawns the next one, and the listener startProcess gave the
\* old stdout stays, so what the old process had written before it died
\* is still handed to handleData
StaleData(inst, msgs) ==
  /\ microtasks = << >>
  /\ inst \in 1..(process - 1)
  /\ Enqueue(inst, msgs)
  /\ UNCHANGED <<process, buffer, nextId, writtenIds, written, initialized, openedDocuments,
                 documentVersions, diagnosticSubscribers, stream, pos, decoded, sentVersion>>

\* the drain loop of processMessageQueue resumes after its await: the next
\* message, or the end of the loop and the finally block
Drain ==
  /\ microtasks # << >> /\ Head(microtasks) = DrainTask
  /\ IF messageQueue # << >>
       THEN LET sh == Shift(messageQueue)
                m == sh.message
                h == HandleMessage(m)
            IN
            /\ messageQueue' = sh.rest
            /\ processingQueue' = processingQueue
            /\ responsePromises' = h.rp
            /\ calls' = Reachable(h.calls, h.rp)
            /\ serverCapabilities' = h.caps
            /\ documentDiagnostics' = h.diags
            /\ answered' = h.answered
            /\ microtasks' = Tail(microtasks) \o Append(h.micro, DrainTask)
            /\ ev' = Handling("drain", m, h.delivered)
       ELSE /\ processingQueue' = FALSE
            /\ microtasks' = Tail(microtasks)
            /\ ev' = Quiet("drain", "event", "", "ok")
            /\ UNCHANGED <<messageQueue, responsePromises, calls, serverCapabilities,
                           documentDiagnostics, answered>>
  /\ UNCHANGED <<process, buffer, nextId, writtenIds, written, initialized, openedDocuments, documentVersions,
                 diagnosticSubscribers, stream, pos, decoded, sentVersion>>
\* ------------------------------------------------------------ sendRequest
\* a faulty variant: the counter is not incremented
NextIdSame(id) == id

\* const id = this.nextId++: the counter after the request took id
NextIdAfter(id) == id + 1

\* sendRequest(method) on instance inst with the counter at id: the entry
\* and the timer it creates and the request it writes.  via and root say
\* who awaits it: the host's call, or restart(root) through shutdown or
\* initialize.
SendRequest(cs, rp, inst, id, method, via, root) ==
  [nextId |-> NextIdAfter(id),
   calls |-> MapSet(cs, <<inst, id>>, NewCall(method, via, root)),
   rp |-> MapSet(rp, id, <<inst, id>>),
   out |-> Written(method, id, "", 0)]

\* the creation order of two calls (timers of equal delay fire in it)
Before(a, b) == a[1] < b[1] \/ (a[1] = b[1] /\ a[2] < b[2])

\* a faulty variant: the timer looks under the wrong key
TimerFindsOther(rp, id) == id + 1 \in DOMAIN rp

\* this.responsePromises.has(id) in the timer callback
TimerFinds(rp, id) == id \in DOMAIN rp

\* the setTimeout callback of call c, 10 s after sendRequest made it: the
\* earliest timer still armed fires
Timeout(c) ==
  /\ microtasks = << >>
  /\ c \in DOMAIN calls /\ calls[c].timer = "armed"
  /\ \A d \in DOMAIN calls : calls[d].timer = "armed" => ~Before(d, c)
  /\ LET found == TimerFinds(responsePromises, c[2])
         fired == [calls EXCEPT ![c].timer = "fired"]
         rp2 == IF found THEN MapDelete(responsePromises, c[2]) ELSE responsePromises
         cs2 == IF found THEN Settle(fired, c, "rejected", TimeoutError) ELSE fired
     IN /\ responsePromises' = rp2
        /\ calls' = Reachable(cs2, rp2)
        /\ microtasks' = IF found THEN Reactions(calls, c) ELSE << >>
        /\ ev' = Quiet("timeout", "event", c, IF found THEN "rejected" ELSE "nothing")
  /\ UNCHANGED <<process, buffer, messageQueue, nextId, writtenIds, written, initialized, serverCapabilities,
                 openedDocuments, documentVersions, processingQueue, documentDiagnostics,
                 diagnosticSubscribers, stream, pos, decoded, answered, sentVersion>>

\* ------------------------------------------------------------- documents
NoVersions == [u \in URIs |-> 0]

\* a faulty variant: the version is not incremented
NewVersionSame(versions, uri) ==
  IF uri \in DOMAIN versions /\ versions[uri] # 0 THEN versions[uri] ELSE 1

\* (this.documentVersions.get(uri) || 1) + 1
NewVersion(versions, uri) ==
  (IF uri \in DOMAIN versions /\ versions[uri] # 0 THEN versions[uri] ELSE 1) + 1

\* a faulty variant: the guard looks at the process handle
NotInitializedProcess == process = 0

\* the guard of openDocument, closeDocument and the three queries
NotInitialized == ~initialized

\* sendNotification writes only when the process is started
Notified(msgs) == IF process # 0 THEN msgs ELSE << >>

openDocument(uri) ==
  /\ HostRuns
  /\ IF NotInitialized
       THEN /\ ev' = Quiet("openDocument", "call", uri, "not initialized")
            /\ UNCHANGED <<openedDocuments, documentVersions, sentVersion>>
       ELSE IF Has(openedDocuments, uri)
         THEN LET newVersion == NewVersion(documentVersions, uri) IN
              /\ newVersion <= MaxVersion
              /\ documentVersions' = MapSet(documentVersions, uri, newVersion)
              /\ sentVersion' = IF process # 0
                                  THEN [sentVersion EXCEPT ![uri] = newVersion]
                                  ELSE sentVersion
              /\ ev' = Event("openDocument", "call", uri, "ok", process,
                             Notified(<<Written("textDocument/didChange", 0, uri, newVersion)>>), << >>)
              /\ UNCHANGED openedDocuments
         ELSE /\ openedDocuments' = SetAdd(openedDocuments, uri)
              /\ documentVersions' = MapSet(documentVersions, uri, 1)
              /\ sentVersion' = IF process # 0 THEN [sentVersion EXCEPT ![uri] = 1]
                                               ELSE sentVersion
              /\ ev' = Event("openDocument", "call", uri, "ok", process,
                             Notified(<<Written("textDocument/didOpen", 0, uri, 1)>>), << >>)
  /\ UNCHANGED <<process, buffer, messageQueue, nextId, writtenIds, responsePromises, initialized,
                 serverCapabilities, processingQueue, documentDiagnostics,
                 diagnosticSubscribers, calls, microtasks, stream, pos, decoded, answered>>
  /\ Logged

\* a faulty variant: closeDocument does not look at the open set
CloseFindsAlways(opened, uri) == TRUE

\* this.openedDocuments.has(uri) in closeDocument
CloseFinds(opened, uri) == Has(opened, uri)

closeDocument(uri) ==
  /\ HostRuns
  /\ IF NotInitialized
       THEN /\ ev' = Quiet("closeDocument", "call", uri, "not initialized")
            /\ UNCHANGED <<openedDocuments, documentVersions>>
       ELSE IF CloseFinds(openedDocuments, uri)
         THEN /\ openedDocuments' = SetDelete(openedDocuments, uri)
              /\ documentVersions' = MapDelete(documentVersions, uri)
              /\ ev' = Event("closeDocument", "call", uri, "ok", process,
                             Notified(<<Written("textDocument/didClose", 0, uri, 0)>>), << >>)
         ELSE /\ ev' = Quiet("closeDocument", "call", uri, "ok")
              /\ UNCHANGED <<openedDocuments, documentVersions>>
  /\ UNCHANGED <<process, buffer, messageQueue, nextId, writtenIds, responsePromises, initialized,
                 serverCapabilities, processingQueue, documentDiagnostics,
                 diagnosticSubscribers, calls, microtasks, stream, pos, decoded, answered, sentVersion>>
  /\ Logged

\* ----------------------------------------------------------- subscribers
subscribeToDiagnostics(cb) ==
  /\ HostRuns
  /\ diagnosticSubscribers' = SetAdd(diagnosticSubscribers, cb)
  /\ LET delivered == InitialDeliveries(documentDiagnostics, cb) IN
     ev' = Event("subscribeToDiagnostics", "call", cb,
                 IF delivered # << >> /\ cb \in Throwing THEN "error" ELSE "ok",
                 process, << >>, delivered)
  /\ UNCHANGED <<process, buffer, messageQueue, nextId, writtenIds, written, responsePromises, initialized,
                 serverCapabilities, openedDocuments, documentVersions, processingQueue,
                 documentDiagnostics, calls, microtasks, stream, pos, decoded, answered, sentVersion>>

unsubscribeFromDiagnostics(cb) ==
  /\ HostRuns
  /\ diagnosticSubscribers' = SetDelete(diagnosticSubscribers, cb)
  /\ ev' = Quiet("unsubscribeFromDiagnostics", "call", cb, "ok")
  /\ UNCHANGED <<process, buffer, messageQueue, nextId, writtenIds, written, responsePromises, initialized,
                 serverCapabilities, openedDocuments, documentVersions, processingQueue,
                 documentDiagnostics, calls, microtasks, stream, pos, decoded, answered, sentVersion>>
\* -------------------------------------------------------------- lifecycle
Hover == "textDocument/hover"
Completion == "textDocument/completion"
CodeAction == "textDocument/codeAction"
Queries == {Hover, Completion, CodeAction}

\* the public operation that sends each request
OperationOf(method) ==
  CASE method = Hover -> "getInfoOnLocation"
    [] method = Completion -> "getCompletion"
    [] method = CodeAction -> "getCodeActions"
    [] OTHER -> method

\* startProcess(): the next instance
Spawned == process + 1

initialize ==
  /\ HostRuns
  /\ IF initialized
       THEN /\ ev' = Quiet("initialize", "call", "", "ok")
            /\ UNCHANGED <<process, nextId, writtenIds, responsePromises, calls>>
       ELSE LET inst == IF process = 0 THEN Spawned ELSE process
                r == SendRequest(calls, responsePromises, inst, nextId, "initialize", "host", FALSE)
            IN /\ nextId <= MaxId
               /\ process' = inst
               /\ nextId' = r.nextId
               /\ writtenIds' = Append(writtenIds, r.out.id)
               /\ responsePromises' = r.rp
               /\ calls' = r.calls
               /\ ev' = Event("initialize", "call", "", Suspended, inst, <<r.out>>, << >>)
  /\ UNCHANGED <<buffer, messageQueue, initialized, serverCapabilities, openedDocuments,
                 documentVersions, processingQueue, documentDiagnostics,
                 diagnosticSubscribers, microtasks, stream, pos, decoded, answered, sentVersion>>
  /\ Logged

\* getInfoOnLocation, getCompletion, getCodeActions up to the await
query(method) ==
  /\ HostRuns
  /\ IF NotInitialized
       THEN /\ ev' = Quiet(OperationOf(method), "call", "", "not initialized")
            /\ UNCHANGED <<nextId, writtenIds, responsePromises, calls>>
       ELSE LET r == SendRequest(calls, responsePromises, process, nextId, method, "host", FALSE)
            IN /\ nextId <= MaxId
               /\ nextId' = r.nextId
               /\ writtenIds' = Append(writtenIds, r.out.id)
               /\ responsePromises' = r.rp
               /\ calls' = r.calls
               /\ ev' = Event(OperationOf(method), "call", "", Suspended, process, <<r.out>>, << >>)
  /\ UNCHANGED <<process, buffer, messageQueue, initialized, serverCapabilities,
                 openedDocuments, documentVersions, processingQueue, documentDiagnostics,
                 diagnosticSubscribers, microtasks, stream, pos, decoded, answered, sentVersion>>
  /\ Logged

\* the didClose notifications of shutdown, one per open document, in order
CloseAll(opened) ==
  [i \in 1..Len(opened) |-> Written("textDocument/didClose", 0, opened[i], 0)]

\* shutdown() up to its await, called by the host or by restart(root)
ShutdownCall(op, via, root) ==
  LET r == SendRequest(calls, responsePromises, process, nextId, "shutdown", via, root) IN
  /\ initialized
  /\ nextId <= MaxId
  /\ diagnosticSubscribers' = << >>
  /\ nextId' = r.nextId
  /\ writtenIds' = Append(writtenIds, r.out.id)
  /\ responsePromises' = r.rp
  /\ calls' = r.calls
  /\ ev' = Event(op, "call", root, Suspended, process,
                 Notified(CloseAll(openedDocuments)) \o <<r.out>>, << >>)
  /\ UNCHANGED <<process, buffer, messageQueue, initialized, serverCapabilities,
                 openedDocuments, documentVersions, processingQueue, documentDiagnostics,
                 microtasks, stream, pos, decoded, answered, sentVersion>>
  /\ Logged

shutdown ==
  /\ HostRuns
  /\ \/ ShutdownCall("shutdown", "host", FALSE)
     \/ /\ ~initialized
        /\ ev' = Quiet("shutdown", "call", FALSE, "ok")
        /\ UNCHANGED <<process, buffer, messageQueue, nextId, writtenIds, written, responsePromises, initialized,
                       serverCapabilities, openedDocuments, documentVersions,
                       processingQueue, documentDiagnostics, diagnosticSubscribers, calls,
                       microtasks, stream, pos, decoded, answered, sentVersion>>

\* a faulty variant: restart keeps the id counter
ResetNextIdKept == nextId

\* this.nextId = 1 of restart
ResetNextId == 1

\* restart from "Kill the process" on: the reset, startProcess() and,
\* with a root directory, initialize(rootDirectory) up to its await
RestartReset(phase, root, queue) ==
  LET r == SendRequest(calls, EmptyMap, Spawned, ResetNextId, "initialize", "restart", root) IN
  /\ process' = Spawned
  /\ buffer' = << >>
  /\ messageQueue' = << >>
  /\ initialized' = FALSE
  /\ serverCapabilities' = Undefined
  /\ openedDocuments' = << >>
  /\ documentVersions' = EmptyMap
  /\ processingQueue' = FALSE
  /\ documentDiagnostics' = << >>
  /\ diagnosticSubscribers' = << >>
  /\ sentVersion' = NoVersions
  /\ answered' = {}
  /\ IF root
       THEN /\ nextId' = r.nextId
            /\ writtenIds' = <<r.out.id>>
            /\ responsePromises' = r.rp
            /\ calls' = Reachable(r.calls, r.rp)
            /\ microtasks' = queue
            /\ ev' = Event("restart", phase, root, Suspended, Spawned, <<r.out>>, << >>)
       ELSE /\ nextId' = ResetNextId
            /\ writtenIds' = << >>
            /\ responsePromises' = EmptyMap
            /\ calls' = Reachable(calls, EmptyMap)
            /\ microtasks' = IF phase = "resume" THEN WithHost(queue) ELSE queue
            /\ ev' = Event("restart", phase, root, "ok", Spawned, << >>, << >>)
  /\ UNCHANGED <<stream, pos, decoded>>
  /\ Logged

\* restart calls that have not spawned their process yet
RestartsWaiting ==
  Cardinality({c \in DOMAIN calls : calls[c].method = "shutdown" /\ calls[c].via = "restart"
                                    /\ calls[c].awaited})
  + Cardinality({i \in 1..Len(microtasks) : microtasks[i][1] = "restart"})

restart(root) ==
  /\ HostRuns
  /\ process + RestartsWaiting < MaxInst
  /\ IF initialized
       THEN ShutdownCall("restart", "restart", root)
       ELSE RestartReset("call", root, microtasks)

\* restart resumes after await this.shutdown()
RestartResume ==
  /\ microtasks # << >> /\ Head(microtasks)[1] = "restart"
  /\ RestartReset("resume", Head(microtasks)[2], Tail(microtasks))

\* restart resumes after await this.initialize(rootDirectory) and returns
\* or rethrows
RestartReturn ==
  /\ microtasks # << >> /\ Head(microtasks)[1] = "restarted"
  /\ microtasks' = WithHost(Tail(microtasks))
  /\ ev' = Quiet("restart", "resume", TRUE, Head(microtasks)[2])
  /\ UNCHANGED <<process, buffer, messageQueue, nextId, writtenIds, written, responsePromises, initialized,
                 serverCapabilities, openedDocuments, documentVersions, processingQueue,
                 documentDiagnostics, diagnosticSubscribers, calls, stream, pos, decoded, answered,
                 sentVersion>>

\* a faulty variant: initialize goes on after a rejected request
InitializeSettled(call) == call.st # "pending"

\* initialize marks the client Initialized when its request was resolved
InitializeSucceeded(call) == call.st = "resolved"

\* what awaits call: the host, or restart with the microtask that resumes it
Awaiter(call, res, queue) ==
  IF call.via = "host" THEN WithHost(queue)
  ELSE IF call.method = "shutdown" THEN Append(queue, <<"restart", call.root>>)
  ELSE Append(queue, <<"restarted", res>>)

\* a faulty variant: the query rethrows
EmptyResultThrows(method) == "error"

\* return '' of getInfoOnLocation, return [] of getCompletion and getCodeActions
EmptyResult(method) == IF method = Hover THEN "''" ELSE "[]"

\* the continuation of the await this.sendRequest(...) of call c
Resume(c) ==
  /\ microtasks # << >> /\ Head(microtasks) = <<"cont", c>>
  /\ LET call == calls[c]
         op == OperationOf(call.method)
         done == Reachable([calls EXCEPT ![c].awaited = FALSE], responsePromises)
         settled == <<call.st, call.val>>
     IN
     /\ calls' = done
     /\ CASE call.method = "initialize" ->
               IF InitializeSucceeded(call)
                 THEN /\ initialized' = TRUE
                      /\ microtasks' = Awaiter(call, "ok", Tail(microtasks))
                      /\ ev' = [Event(op, "resume", c, "ok", process,
                                      Notified(<<Written("initialized", 0, "", 0)>>), << >>)
                                  EXCEPT !.settled = settled]
                      /\ UNCHANGED openedDocuments
                 ELSE /\ microtasks' = Awaiter(call, "error", Tail(microtasks))
                      /\ ev' = [Quiet(op, "resume", c, "error") EXCEPT !.settled = settled]
                      /\ UNCHANGED <<initialized, openedDocuments>>
          [] call.method = "shutdown" ->
               /\ microtasks' = Awaiter(call, "ok", Tail(microtasks))
               /\ IF call.st = "resolved"
                    THEN /\ initialized' = FALSE
                         /\ openedDocuments' = << >>
                         /\ ev' = [Event(op, "resume", c, "ok", process,
                                         Notified(<<Written("exit", 0, "", 0)>>), << >>)
                                     EXCEPT !.settled = settled]
                    ELSE /\ ev' = [Quiet(op, "resume", c, "ok") EXCEPT !.settled = settled]
                         /\ UNCHANGED <<initialized, openedDocuments>>
          [] OTHER ->
               /\ microtasks' = Awaiter(call, "ok", Tail(microtasks))
               /\ ev' = [Quiet(op, "resume", c,
                               IF call.st = "resolved" /\ call.val = ResultPlain
                                 THEN "value" ELSE EmptyResult(call.method))
                           EXCEPT !.settled = settled]
               /\ UNCHANGED <<initialized, openedDocuments>>
  /\ UNCHANGED <<process, buffer, messageQueue, nextId, writtenIds, responsePromises,
                 serverCapabilities, documentVersions, processingQueue, documentDiagnostics,
                 diagnosticSubscribers, stream, pos, decoded, answered, sentVersion>>
  /\ Logged

\* the host's reaction ends
HostReturns ==
  /\ microtasks # << >> /\ Head(microtasks) = HostTask
  /\ microtasks' = Tail(microtasks)
  /\ ev' = Quiet("host", "event", "", "ok")
  /\ UNCHANGED <<process, buffer, messageQueue, nextId, writtenIds, written, responsePromises, initialized,
                 serverCapabilities, openedDocuments, documentVersions, processingQueue,
                 documentDiagnostics, diagnosticSubscribers, calls, stream, pos, decoded, answered,
                 sentVersion>>

\* ---------------------------------------------------------- client model
NoEvent == Event("new", "call", "", "ok", 0, << >>, << >>)

\* the state the constructor leaves
Constructed ==
  /\ process = 0
  /\ buffer = << >>
  /\ messageQueue = << >>
  /\ nextId = 1
  /\ responsePromises = EmptyMap
  /\ initialized = FALSE
  /\ serverCapabilities = Undefined
  /\ openedDocuments = << >>
  /\ documentVersions = EmptyMap
  /\ processingQueue = FALSE
  /\ documentDiagnostics = << >>
  /\ diagnosticSubscribers = << >>
  /\ calls = EmptyMap
  /\ microtasks = << >>
  /\ decoded = << >>
  /\ sentVersion = NoVersions
  /\ answered = {}
  /\ writtenIds = << >>
  /\ written = NothingWritten
  /\ ev = NoEvent

\* the server of the client specifications writes whole frames (Data)
Init == Constructed /\ stream = << >> /\ pos = 0

A == "file:///a"
B == "file:///b"

\* the chunks of complete frames a data event may carry
Chunks(msgs) == UNION {[1..n -> msgs] : n \in 1..MaxChunk}

\* the microtasks and timers every specification runs
Runtime ==
  \/ \E c \in DOMAIN calls : Resume(c)
  \/ HostReturns
  \/ Drain
  \/ \E c \in DOMAIN calls : Timeout(c)

\* ------------------------------------------------ the decoder specification
\* The payloads the server writes: {}, {"a":{}} and {"é":{}}
Payloads ==
  { <<"{", "}">>,
    <<"{", Quote, "a", Quote, ":", "{", "}", "}">>,
    <<"{", Quote, CharE9, Quote, ":", "{", "}", "}">> }

Streams == UNION {[1..n -> Payloads] : n \in 1..MaxFrames}

\* An item of the stream that is not a whole frame: the header of a frame
\* that declares one byte more than the maximum, and the first bytes of
\* its payload (the item is the mark and these bytes).
Oversized == "oversized"
OversizedHeader == HeaderName \o Decimal(MAX_BUFFER_SIZE + 1) \o HeaderEnd

\* the bytes the server writes for an item of the stream
ItemBytes(item) ==
  IF item # << >> /\ Head(item) = Oversized THEN OversizedHeader \o Tail(item) ELSE Frame(item)

\* the bytes of a stream of frames
StreamBytes(frames) == Concat([i \in 1..Len(frames) |-> ItemBytes(frames[i])])

\* stdout "data" event with the next n bytes of the stream: handleData
\* decodes and pushes, processMessageQueue handles
handleData(n) ==
  /\ microtasks = << >>
  /\ process # 0
  /\ pos + n <= Len(StreamBytes(stream))
  /\ LET d == HandleData(buffer, SubSeq(StreamBytes(stream), pos + 1, pos + n)) IN
     /\ buffer' = d.buffer
     /\ decoded' = decoded \o d.pushed
     /\ Enqueue(process, [i \in 1..Len(d.pushed) |-> RawMessage(d.pushed[i])])
  /\ pos' = pos + n
  /\ UNCHANGED <<process, nextId, writtenIds, written, initialized, openedDocuments, documentVersions,
                 diagnosticSubscribers, stream, sentVersion>>

DecoderInit == Constructed /\ stream \in Streams /\ pos = 0

\* the process is spawned by restart() and writes its stream in chunks
DecoderNext ==
  \/ \E root \in {FALSE} : restart(root)
  \/ \E n \in 1..Len(StreamBytes(stream)) : handleData(n)
  \/ Drain

DecoderSpec == DecoderInit /\ [][DecoderNext]_vars

\* --------------------------------------- the oversized frame specification
\* A frame, then the header of an oversized frame and the first bytes of
\* its payload, in chunks of every size
EmptyObject == <<"{", "}">>

PayloadStarts == { <<"{", Quote>>, <<"{", "}">> }

OversizeStreams == { <<EmptyObject, <<Oversized>> \o start>> : start \in PayloadStarts }

OversizeInit == Constructed /\ stream \in OversizeStreams /\ pos = 0

OversizeSpec == OversizeInit /\ [][DecoderNext]_vars

\* --------------------------------------- the irregular frame specification
\* Frames whose payload does not end with a closing brace, alone or followed
\* by a valid frame, in chunks of every size: {} with a trailing space (a
\* valid JSON text), {"}" (a string that is not closed: no JSON text) and {
Irregular ==
  { <<"{", "}", " ">>, <<"{", Quote, "}", Quote>>, <<"{">> }

IrregularStreams == { <<m>> : m \in Irregular } \cup { <<m, EmptyObject>> : m \in Irregular }

IrregularInit == Constructed /\ stream \in IrregularStreams /\ pos = 0

IrregularSpec == IrregularInit /\ [][DecoderNext]_vars

\* ------------------------------------------------ the request specification
\* Requests and their responses: any response to any id, in any order, at
\* any time, against the timers; restart abandons what is pending.
Responses ==
  {Response(id, r, Undefined) : id \in 1..MaxId, r \in {ResultCaps, ResultPlain}}
  \cup {Response(id, Undefined, ServerError) : id \in 1..MaxId}

RequestNext ==
  \/ initialize
  \/ \E m \in {Hover} : query(m)
  \/ \E root \in {FALSE} : restart(root)
  \/ RestartResume
  \/ \E m \in Responses : Data(<<m>>)
  \/ Runtime

RequestSpec == Init /\ [][RequestNext]_vars

\* -------------------------------------------------- the query specification
\* The three queries of an Initialized client, answered with a result or
\* an error, or timed out
QueryMessages ==
  {Response(1, ResultCaps, Undefined), Response(2, ResultPlain, Undefined),
   Response(2, Undefined, ServerError)}

QueryNext ==
  \/ initialize
  \/ \E m \in Queries : query(m)
  \/ \E m \in QueryMessages : Data(<<m>>)
  \/ Runtime

QuerySpec == Init /\ [][QueryNext]_vars

\* ----------------------------------------------- the document specification
\* Document sessions of two uris in one process: initialize, the sessions,
\* shutdown (which may fail), initialize again
DocumentMessages ==
  {Response(1, ResultCaps, Undefined), Response(2, ResultPlain, Undefined),
   Response(2, Undefined, ServerError)}

DocumentNext ==
  \/ initialize
  \/ \E u \in URIs : openDocument(u)
  \/ \E u \in URIs : closeDocument(u)
  \/ shutdown
  \/ \E m \in DocumentMessages : Data(<<m>>)
  \/ Runtime

DocumentSpec == Init /\ [][DocumentNext]_vars

\* -------------------------------------------------- the guard specification
\* The guarded operations in every lifecycle state: before initialize,
\* while it is awaited, Initialized, after shutdown, after restart
GuardMessages == {Response(1, ResultCaps, Undefined), Response(2, ResultPlain, Undefined)}

GuardNext ==
  \/ initialize
  \/ \E u \in {A} : openDocument(u)
  \/ \E u \in {A} : closeDocument(u)
  \/ \E m \in Queries : query(m)
  \/ shutdown
  \/ \E root \in {FALSE} : restart(root)
  \/ RestartResume
  \/ \E m \in GuardMessages : Data(<<m>>)
  \/ Runtime

GuardSpec == Init /\ [][GuardNext]_vars

\* ----------------------------------------- the diagnostics store specification
\* Publishes for two uris, valid and not, against a document and the reset
StoreMessages ==
  {PublishDiagnostics(A, << >>), PublishDiagnostics(A, <<1>>), PublishDiagnostics(B, <<1>>),
   PublishDiagnostics("", <<1>>), Response(1, ResultCaps, Undefined)}

StoreNext ==
  \/ initialize
  \/ \E u \in {A} : openDocument(u)
  \/ \E u \in {A} : closeDocument(u)
  \/ \E root \in {FALSE} : restart(root)
  \/ RestartResume
  \/ \E m \in StoreMessages : Data(<<m>>)
  \/ Runtime

StoreSpec == Init /\ [][StoreNext]_vars

\* ------------------------------------------- the subscribers specification
\* Two subscribers, one of which throws, and chunks of publishes
SubscriberMessages ==
  {PublishDiagnostics(A, << >>), PublishDiagnostics(A, <<1>>), PublishDiagnostics(B, <<1>>)}

SubscriberNext ==
  \/ \E root \in {FALSE} : restart(root)
  \/ \E cb \in Subscribers : subscribeToDiagnostics(cb)
  \/ \E cb \in Subscribers : unsubscribeFromDiagnostics(cb)
  \/ \E msgs \in Chunks(SubscriberMessages) : Data(msgs)
  \/ HostReturns
  \/ Drain

SubscriberSpec == Init /\ [][SubscriberNext]_vars

\* ------------------------------------------------- the queue specification
\* Chunks of several frames, responses and publishes, against the host's
\* continuations, a subscriber's reaction and restart
QueueMessages ==
  {Response(1, ResultCaps, Undefined), PublishDiagnostics(A, << >>),
   PublishDiagnostics(A, <<1>>)}

QueueNext ==
  \/ initialize
  \/ \E cb \in {"cb1"} : subscribeToDiagnostics(cb)
  \/ \E root \in {FALSE} : restart(root)
  \/ RestartResume
  \/ \E msgs \in Chunks(QueueMessages) : Data(msgs)
  \/ Runtime

QueueSpec == Init /\ [][QueueNext]_vars

\* --------------------------------------------- the lifecycle specification
\* restart with and without a root directory, from every state of a
\* session with a document, a subscriber, diagnostics and pending calls
LifecycleMessages ==
  {Response(1, ResultCaps, Undefined), Response(1, Undefined, ServerError),
   Response(2, ResultPlain, Undefined), PublishDiagnostics(A, <<1>>)}

LifecycleNext ==
  \/ initialize
  \/ \E u \in {A} : openDocument(u)
  \/ \E cb \in {"cb1"} : subscribeToDiagnostics(cb)
  \/ \E root \in BOOLEAN : restart(root)
  \/ RestartResume
  \/ RestartReturn
  \/ \E m \in LifecycleMessages : Data(<<m>>)
  \/ Runtime

LifecycleSpec == Init /\ [][LifecycleNext]_vars

\* ------------------------------------------- the stale output specification
\* restart kills a process that has written output the client has not read
\* yet: a response to request 1 and a publish, which arrive before or after
\* the next process is spawned and the next initialize is sent
StaleMessages == {Response(1, ResultCaps, Undefined), PublishDiagnostics(A, <<1>>)}

StaleNext ==
  \/ initialize
  \/ \E root \in {FALSE} : restart(root)
  \/ RestartResume
  \/ \E m \in StaleMessages : Data(<<m>>)
  \/ \E inst \in 1..MaxInst, m \in StaleMessages : StaleData(inst, <<m>>)
  \/ Runtime

StaleSpec == Init /\ [][StaleNext]_vars

\* ================================================================ properties
\* What handleMessage does with a response: how it settles and with what
SettledAs(m) == IF m.error # Undefined THEN "rejected" ELSE "resolved"
SettledWith(m) == IF m.error # Undefined THEN m.error ELSE m.result

\* the step is the reset of restart (it spawns the next process)
IsReset == ev'.op = "restart" /\ process' # process

\* ----------------------------------------------------------------------- C1
\* C1: when the chunks handed to handleData add up to exactly N valid frames,
\* the decoder has pushed exactly N messages, equal to and in the order of
\* the originals, and the buffer is empty, however the stream was split.
\* (Stated for a stream read whole by the first process instance.)
C1_RoundTrip ==
  (process = 1 /\ pos > 0 /\ pos = Len(StreamBytes(stream))) =>
    /\ decoded = [i \in 1..Len(stream) |-> JSONParse(stream[i])]
    /\ buffer = << >>

\* ----------------------------------------------------------------------- C2
\* C2: a response handled while the entry of its id is pending settles that
\* call exactly once, with its result or its error, and removes the entry;
\* a later response for an id already answered settles nothing and changes
\* no state, and no timer of an answered request is left to fire.
C2_SettledOnce ==
  [][/\ \A i \in 1..Len(ev'.handled) :
          LET m == ev'.handled[i] IN
          IsResponse(m) =>
            /\ m.id \in DOMAIN responsePromises =>
                 LET c == responsePromises[m.id] IN
                 /\ c \in DOMAIN calls'
                 /\ calls'[c].settles = 1
                 /\ calls'[c].st = SettledAs(m)
                 /\ calls'[c].val = SettledWith(m)
                 /\ m.id \notin DOMAIN responsePromises'
            /\ m.id \in answered => UNCHANGED clientVars
     /\ \A c \in DOMAIN calls' :
          (c[1] = process' /\ c[2] \in answered') => calls'[c].timer # "armed"
    ]_vars

C4_Versioning ==
  [][(ev'.op = "openDocument" /\ initialized) =>
       LET u == ev'.arg IN
       /\ ev'.res = "ok"
       /\ Has(openedDocuments', u)
       /\ IF ~Has(openedDocuments, u)
            THEN /\ ev'.out = <<Written("textDocument/didOpen", 0, u, 1)>>
                 /\ documentVersions'[u] = 1
            ELSE /\ sentVersion[u] = documentVersions[u]
                 /\ ev'.out = <<Written("textDocument/didChange", 0, u, sentVersion[u] + 1)>>
                 /\ documentVersions'[u] = documentVersions[u] + 1
    ]_vars

\* the second openDocument after the first on one uri: N = 2, version 3
C4_Witness ==
  /\ ev.op = "openDocument"
  /\ ev.out = <<Written("textDocument/didChange", 0, A, 3)>>
  /\ documentVersions[A] = 3

C6_Replacement ==
  /\ \A u \in URIs : getDiagnostics(u) = << >>
  /\ [][\A u \in URIs :
          IF IsReset THEN DiagGet(documentDiagnostics', u) = << >>
          ELSE IF \E i \in 1..Len(ev'.handled) :
                    IsValidPublish(ev'.handled[i]) /\ ev'.handled[i].params.uri = u
            THEN \A i \in 1..Len(ev'.handled) :
                   DiagGet(documentDiagnostics', u) = ev'.handled[i].params.diagnostics
            ELSE DiagGet(documentDiagnostics', u) = DiagGet(documentDiagnostics, u)
       ]_vars

\* a publish for A replaces the entry A already has, beside an entry for B
\* and with a session open for A
C6_Witness ==
  /\ ev.handled = <<PublishDiagnostics(A, << >>)>>
  /\ documentDiagnostics = <<[uri |-> A, diagnostics |-> << >>],
                             [uri |-> B, diagnostics |-> <<1>>]>>
  /\ Has(openedDocuments, A)

\* ----------------------------------------------------------------------- C7
\* C7: subscribeToDiagnostics(cb) adds cb to the subscriber set and, before
\* it returns, invokes cb exactly once for each uri in the diagnostics
\* store, with the sequence stored for it, and for no other uri.
C7_CatchUp ==
  [][ev'.op = "subscribeToDiagnostics" =>
       LET cb == ev'.arg
           store == documentDiagnostics
       IN /\ Has(diagnosticSubscribers', cb)
          /\ Len(ev'.delivered) = Len(store)
          /\ \A i \in 1..Len(store) :
               \E j \in 1..Len(ev'.delivered) :
                 ev'.delivered[j] = <<cb, store[i].uri, store[i].diagnostics>>
    ]_vars

\* ----------------------------------------------------------------------- C8
\* C8 (as stated): when restart() has completed, the next request id is 1
\* and the open set, the version map, the diagnostics store, the pending
\* table and the subscriber set are empty.
C8_AllResetWhenCompleted ==
  (ev.op = "restart" /\ ev.res = "ok") =>
    /\ nextId = 1
    /\ openedDocuments = << >>
    /\ documentVersions = EmptyMap
    /\ getAllDiagnostics = << >>
    /\ responsePromises = EmptyMap
    /\ diagnosticSubscribers = << >>

\* C8 (amended): the reset of restart, from any prior state, leaves the
\* open set, the version map, the diagnostics store and the subscriber set
\* empty and the client not Initialized.  Without a root directory restart
\* completes there, with the pending table empty and 1 the next request id.
\* With a root directory the same step writes restart's own initialize
\* request with id 1, its entry is the only one in the pending table, and
\* when restart has completed the next request id is at least 2.
C8_RestartResets ==
  [][/\ IsReset =>
          /\ openedDocuments' = << >>
          /\ documentVersions' = EmptyMap
          /\ DOMAIN documentVersions' = {}
          /\ documentDiagnostics' = << >>
          /\ diagnosticSubscribers' = << >>
          /\ ~initialized'
          /\ IF ev'.arg
               THEN /\ ev'.res = Suspended
                    /\ ev'.out = <<Written("initialize", 1, "", 0)>>
                    /\ nextId' = 2
                    /\ DOMAIN responsePromises' = {1}
                    /\ responsePromises'[1] = <<process', 1>>
               ELSE /\ ev'.res = "ok"
                    /\ ev'.out = << >>
                    /\ nextId' = 1
                    /\ responsePromises' = EmptyMap
     /\ (ev'.op = "restart" /\ ~IsReset /\ ev'.res = "ok") => (ev'.arg /\ nextId' >= 2)
    ]_vars

\* restart with a root directory has completed: the next request id is 2
C8_Witness ==
  /\ ev.op = "restart"
  /\ ev.phase = "resume"
  /\ ev.res = "ok"
  /\ ev.arg
  /\ initialized
  /\ nextId = 2

\* ----------------------------------------------------------------------- C9
\* C9: openDocument, closeDocument, getInfoOnLocation, getCompletion and
\* getCodeActions called while the client is not Initialized fail with the
\* not-initialized error, write nothing, and leave the id counter, the
\* pending table, the open set, the version map and the diagnostics store
\* as they were.
GuardedOperations ==
  {"openDocument", "closeDocument", "getInfoOnLocation", "getCompletion", "getCodeActions"}

C9_NotInitialized ==
  [][(ev'.op \in GuardedOperations /\ ev'.phase = "call" /\ ~initialized) =>
       /\ ev'.res = "not initialized"
       /\ ev'.out = << >>
       /\ UNCHANGED <<nextId, responsePromises, calls, openedDocuments, documentVersions,
                      documentDiagnostics>>
    ]_vars

\* a guarded operation fails after shutdown: the process is there, the
\* version map still has the uri of the session shutdown ended
C9_Witness ==
  /\ ev.op = "closeDocument"
  /\ ev.res = "not initialized"
  /\ process # 0
  /\ DOMAIN documentVersions # {}

\* ---------------------------------------------------------------------- C10
\* C10: the client becomes Initialized only in the continuation of an
\* initialize whose request a response resolved, which writes the
\* initialized notification and then sets the flag, and the notification is
\* written nowhere else; the continuation of an initialize whose request
\* was rejected (server error or timeout) writes nothing, leaves the flag
\* and the process handle as they were and rethrows.
C10_InitializeOrder ==
  [][/\ (~initialized /\ initialized') =>
          (ev'.op = "initialize" /\ ev'.phase = "resume" /\ calls[ev'.arg].st = "resolved")
     /\ (\E i \in 1..Len(ev'.out) : ev'.out[i].method = "initialized") =>
          (ev'.op = "initialize" /\ ev'.phase = "resume" /\ calls[ev'.arg].st = "resolved")
     /\ (ev'.op = "initialize" /\ ev'.phase = "resume") =>
          IF calls[ev'.arg].st = "resolved"
            THEN /\ calls[ev'.arg].timer = "cleared"
                 /\ ev'.out = <<Written("initialized", 0, "", 0)>>
                 /\ initialized'
                 /\ ev'.res = "ok"
            ELSE /\ calls[ev'.arg].st = "rejected"
                 /\ ev'.out = << >>
                 /\ initialized' = initialized
                 /\ process' = process /\ process # 0
                 /\ ev'.res = "error"
    ]_vars

\* an initialize whose request was rejected has rethrown: the client is
\* Started, not Initialized
C10_Witness ==
  /\ ev.op = "initialize"
  /\ ev.phase = "resume"
  /\ ev.res = "error"
  /\ process # 0
  /\ ~initialized

\* ---------------------------------------------------------------------- C11
\* C11: whenever shutdown() was called in Initialized state and returns,
\* the client is no longer Initialized and the open set and the subscriber
\* set are empty; shutdown() called in any other state writes nothing and
\* changes nothing.
C11_ShutdownStops ==
  [][/\ (ev'.op = "shutdown" /\ ev'.phase = "resume" /\ ev'.res = "ok") =>
          /\ ~initialized'
          /\ openedDocuments' = << >>
          /\ diagnosticSubscribers' = << >>
     /\ (ev'.op = "shutdown" /\ ev'.phase = "call" /\ ~initialized) =>
          /\ ev'.res = "ok"
          /\ ev'.out = << >>
          /\ UNCHANGED clientVars
    ]_vars

\* ---------------------------------------------------------------------- C12
\* C12: when the shutdown request of shutdown() was rejected (server error
\* or timeout), shutdown() rejects to its caller, as initialize() does when
\* its initialize request was rejected.
C12_ShutdownPropagates ==
  [][(ev'.phase = "resume" /\ ev'.op \in {"shutdown", "initialize"}
        /\ ev'.settled[1] = "rejected") =>
       ev'.res = "error"
    ]_vars

\* ---------------------------------------------------------------------- C13
\* C13: in every reachable state a uri is in the open set if and only if a
\* version is recorded for it, and every recorded version is at least 1.
C13_OpenIffVersion ==
  /\ {u \in URIs : Has(openedDocuments, u)} = DOMAIN documentVersions
  /\ \A u \in DOMAIN documentVersions : documentVersions[u] >= 1

\* ---------------------------------------------------------------------- C14
\* the ids written to the current process instance are 1, 2, 3, ... in
\* send order and the counter is the next of them
IdsInSendOrder ==
  /\ writtenIds = [i \in 1..Len(writtenIds) |-> i]
  /\ nextId = Len(writtenIds) + 1
  /\ \A i \in 1..Len(ev.out) :
       ev.out[i].id # NoId =>
         (ev.inst = process /\ ev.out[i].id = writtenIds[Len(writtenIds)])

\* C14 (as stated): the ids written to one process instance are 1, 2, 3,
\* ... in send order, and at no time do two unsettled calls share one id.
C14_NoSharedId ==
  /\ IdsInSendOrder
  /\ \A c, d \in DOMAIN calls :
       (c # d /\ calls[c].st = "pending" /\ calls[d].st = "pending") => c[2] # d[2]

\* C14 (amended): the ids written to one process instance are 1, 2, 3, ...
\* in send order: every sendRequest takes the counter's value and adds one
\* to it, and only the reset of restart, which spawns the next instance,
\* sets it back to 1.  The pending table has at most one entry per id, and
\* it is the unsettled call of the current instance that was written with
\* this id; a call that restart abandoned stays unsettled beside a call of
\* the next instance that has the same id.
C14_IdsPerInstance ==
  /\ [](/\ IdsInSendOrder
        /\ \A id \in DOMAIN responsePromises :
             /\ responsePromises[id] = <<process, id>>
             /\ id \in 1..Len(writtenIds)
             /\ <<process, id>> \in DOMAIN calls
             /\ calls[<<process, id>>].st = "pending")
  /\ [][IF IsReset
          THEN writtenIds' = IF ev'.arg THEN <<1>> ELSE << >>
          ELSE writtenIds' = writtenIds \/ writtenIds' = Append(writtenIds, nextId)
       ]_vars

\* the second instance has been written the ids 1 and 2 while the call
\* with id 1 that restart abandoned is still unsettled
C14_Witness ==
  /\ process = 2
  /\ writtenIds = <<1, 2>>
  /\ <<1, 1>> \in DOMAIN calls
  /\ calls[<<1, 1>>].st = "pending"
  /\ 2 \in DOMAIN responsePromises

\* ---------------------------------------------------------------------- C15
\* C15: in Initialized state each of getInfoOnLocation, getCompletion and
\* getCodeActions writes exactly one request, and when that request was
\* rejected, by an error response or by its timer, the operation does not
\* reject: it returns the empty string (hover) or the empty list.
QueryOperations == {"getInfoOnLocation", "getCompletion", "getCodeActions"}

C15_QueriesDegrade ==
  [][/\ (ev'.op \in QueryOperations /\ ev'.phase = "call" /\ initialized) =>
          /\ ev'.res = Suspended
          /\ Len(ev'.out) = 1
          /\ ev'.out[1].method \in Queries
          /\ OperationOf(ev'.out[1].method) = ev'.op
          /\ ev'.out[1].id = nextId
          /\ writtenIds' = Append(writtenIds, nextId)
     /\ (ev'.op \in QueryOperations /\ ev'.phase = "resume"
           /\ ev'.settled[1] = "rejected") =>
          /\ ev'.settled[2] \in {ServerError, TimeoutError}
          /\ ev'.res = IF ev'.op = "getInfoOnLocation" THEN "''" ELSE "[]"
          /\ ev'.out = << >>
    ]_vars

\* getCompletion has returned the empty list after its request timed out
C15_Witness ==
  /\ ev.op = "getCompletion"
  /\ ev.phase = "resume"
  /\ ev.settled = <<"rejected", TimeoutError>>
  /\ ev.res = "[]"

\* ---------------------------------------------------------------------- C16
\* the drain loops that have passed the guard and have not finished: each
\* is suspended at its await
ActiveLoops == Cardinality({i \in 1..Len(microtasks) : microtasks[i] = DrainTask})

\* C16: at every moment at most one drain loop is active, under every
\* interleaving of data events, host operations and restart; of the
\* messages one data event decodes, the loop it starts handles the first,
\* the others are only enqueued, and it is that loop which handles them.
C16_OneDrainLoop ==
  /\ [](ActiveLoops <= 1 /\ (processingQueue => ActiveLoops = 1))
  /\ [][/\ (ev'.op = "data" /\ ev'.pushed # << >>) =>
             /\ ActiveLoops = 0
             /\ ActiveLoops' = 1
             /\ processingQueue'
             /\ ev'.handled = <<Head(messageQueue \o ev'.pushed)>>
             /\ messageQueue' = Tail(messageQueue \o ev'.pushed)
        /\ (ev'.op = "drain" /\ messageQueue # << >>) =>
             /\ ActiveLoops = 1
             /\ ActiveLoops' = 1
             /\ ev'.handled = <<Head(messageQueue)>>
        /\ ev'.handled # << >> => ev'.op \in {"data", "drain"}
       ]_vars

\* restart has reset the flag while a drain loop is suspended at its await
C16_Witness ==
  /\ ev.op = "restart"
  /\ process = 2
  /\ ActiveLoops = 1
  /\ ~processingQueue

C18_FanOut ==
  [][\A i \in 1..Len(ev'.handled) :
       LET m == ev'.handled[i]
           uri == m.params.uri
           diagnostics == m.params.diagnostics
       IN IsValidPublish(m) =>
            /\ documentDiagnostics' = DiagSet(documentDiagnostics, uri, diagnostics)
            /\ DiagGet(documentDiagnostics', uri) = diagnostics
            /\ Len(ev'.delivered) = Len(diagnosticSubscribers)
            /\ \A j \in 1..Len(diagnosticSubscribers) :
                 ev'.delivered[j] = <<diagnosticSubscribers[j], uri, diagnostics>>
            /\ UNCHANGED diagnosticSubscribers
            /\ ActiveLoops' = 1
            /\ messageQueue' = Tail(messageQueue \o ev'.pushed)
    ]_vars

\* a publish was delivered to a subscriber that throws and then to the
\* next subscriber, and a later message waits in the queue
C18_Witness ==
  /\ ev.handled = <<PublishDiagnostics(A, <<1>>)>>
  /\ ev.delivered = << <<"cbThrows", A, <<1>>>>, <<"cb1", A, <<1>>>> >>
  /\ DiagGet(documentDiagnostics, A) = <<1>>
  /\ messageQueue = <<PublishDiagnostics(B, <<1>>)>>
  /\ ActiveLoops = 1

\* ---------------------------------------------------------------------- C19
\* C19: a call that was pending when restart reset the state (an unsettled
\* call of an earlier process instance) is never resolved and never
\* rejected afterwards, by no response and by no timer, and the reset
\* leaves no entry of such a call in the pending table.
C19_Abandoned ==
  [][/\ \A c \in DOMAIN calls :
          (c[1] < process' /\ calls[c].st = "pending" /\ c \in DOMAIN calls') =>
            (calls'[c].st = "pending" /\ calls'[c].settles = 0)
     /\ IsReset => \A id \in DOMAIN responsePromises' : responsePromises'[id][1] = process'
    ]_vars

\* ---------------------------------------------------------------------- C20
\* C20: once the header of a frame that declares more than the maximum has
\* been received, the decoder discards the header and the bytes of the
\* declared region, also those that arrive in later chunks: it enqueues no
\* message for the frame and keeps none of its bytes in the buffer.
\* (Stated for a stream read by the first process instance: a frame, then
\* the oversized header and the first bytes of its payload.)
C20_OversizeSkipped ==
  (process = 1 /\ pos >= Len(Frame(EmptyObject)) + Len(OversizedHeader)) =>
    /\ decoded = <<JSONParse(EmptyObject)>>
    /\ buffer = << >>

\* ---------------------------------------------------------------------- C21
\* content.substring(0, lastBraceIndex + 1) when the content holds a closing
\* brace, the content itself when it holds none
TruncatedAtLastBrace(content) ==
  IF LastIndexOf(content, "}") # -1
    THEN Substring2(content, 0, LastIndexOf(content, "}") + 1)
    ELSE content

\* C21: when the payload of the declared length does not end with "}", the
\* decoder parses the payload truncated after its last "}" and consumes the
\* whole declared region: once the bytes of the frame have arrived, the
\* buffer holds nothing but the bytes received after the declared length,
\* and none of the bytes between the truncation point and the declared
\* length.  (Stated for a stream read by the first process instance whose
\* first frame does not end with "}".)
C21_DeclaredRegionConsumed ==
  (process = 1 /\ pos >= Len(Frame(stream[1]))) =>
    LET after == SubSeq(StreamBytes(stream), Len(Frame(stream[1])) + 1, pos)
        first == PushParsed(<< >>, TruncatedAtLastBrace(stream[1]))
    IN /\ Len(decoded) >= Len(first) /\ SubSeq(decoded, 1, Len(first)) = first
       /\ buffer = IF pos = Len(StreamBytes(stream)) THEN << >> ELSE BufferToString(after)

\* ---------------------------------------------------------------------- C22
\* C22: a frame whose payload fails to parse is not fatal to the stream: it
\* enqueues no message, and the valid frame that arrives after it is
\* decoded.  (Stated at the point where every byte of the valid frame has
\* been handed to handleData by the first process instance: the decoder
\* runs only in handleData, so a frame that is not decoded by then stays
\* undecoded until more bytes arrive.)
C22_MalformedNotFatal ==
  (/\ process = 1 /\ Len(stream) = 2 /\ JSONParse(stream[1]) = ParseError
   /\ pos >= Len(Frame(stream[1]))) =>
    decoded = IF pos = Len(StreamBytes(stream)) THEN <<JSONParse(stream[2])>> ELSE << >>

\* ---------------------------------------------------------------------- C23
\* C23: the timer callback of a call removes no pending entry but the
\* call's own and rejects no call but its own: the entry of any other call,
\* also one that carries the same numeric id, is still in the table after
\* the callback, and no other call is settled by it.
C23_TimerRemovesOwnEntry ==
  [][ev'.op = "timeout" =>
       /\ \A id \in DOMAIN responsePromises :
            responsePromises[id] # ev'.arg =>
              (id \in DOMAIN responsePromises' /\ responsePromises'[id] = responsePromises[id])
       /\ \A d \in DOMAIN calls :
            (d # ev'.arg /\ d \in DOMAIN calls') => calls'[d].st = calls[d].st
    ]_vars

\* ---------------------------------------------------------------------- C24
\* C24: after restart has spawned the next process, a data event of the
\* stdout of an earlier process changes nothing of the session: the buffer
\* and the queue are as before, no message is handled, no call is settled,
\* no pending entry is removed and the diagnostics store and the stored
\* capabilities are as before.
C24_StaleOutputIgnored ==
  [][(ev'.op = "data" /\ ev'.inst # process') =>
       /\ ev'.handled = << >>
       /\ UNCHANGED <<buffer, messageQueue, responsePromises, calls, documentDiagnostics,
                      serverCapabilities>>
    ]_vars

\* ---------------------------------------------------------------------- C25
\* C25: an initialize call made while an initialize call on the same
\* process instance is awaiting its response writes no initialize request,
\* and at most one initialized notification is written to an instance.
C25_OneInitialize ==
  [][/\ (/\ ev'.op = "initialize" /\ ev'.phase = "call"
         /\ \E c \in DOMAIN calls :
              /\ c[1] = process /\ calls[c].method = "initialize"
              /\ calls[c].st = "pending" /\ calls[c].awaited)
        => ev'.out = << >>
     /\ written'.initialized <= 1
    ]_vars

\* ---------------------------------------------------------------------- C26
\* C26: once the exit notification has been written to a process instance,
\* nothing more is written to that instance: a step that leaves the process
\* handle as it is writes nothing.
C26_NothingAfterExit ==
  [][(written.exit /\ process' = process) => ev'.out = << >>]_vars

\* ---------------------------------------------------------------------- C27
\* C27: every didChange and every didClose written to a process instance
\* is for a uri whose most recent didOpen/didClose written to that instance
\* was a didOpen.
C27_ChangeAndCloseOfOpen ==
  [][\A i \in 1..Len(ev'.out) :
       ev'.out[i].method \in {"textDocument/didChange", "textDocument/didClose"} =>
         (process' = process /\ ev'.out[i].uri \in written.open)
    ]_vars

\* ---------------------------------------------------------------------- C28
\* C28: after the shutdown request has been written to a process instance,
\* the only message written to that instance is exit: no didOpen, didChange
\* or didClose notification and no hover, completion or code-action request
\* follows it, whatever the host calls while shutdown awaits.
C28_OnlyExitAfterShutdown ==
  [][(written.shutdown /\ process' = process) =>
       \A i \in 1..Len(ev'.out) : ev'.out[i].method = "exit"
    ]_vars

====
